---- MODULE Spec2Model ----
(***************************************************************************)
(* RangeTripper: an http.RoundTripper that downloads one resource with     *)
(* concurrent byte-range GETs.  The model covers both source versions:     *)
(*   ver = 1   src/rt.go          (single-use instance, file sink)         *)
(*   ver = 2   src/v2/rt_test.go  lines 608-1112 (the v2 engine; request   *)
(*             scoped rangeInfo, file or buffer sink)                      *)
(* RoundTrip is a process per call; every chunk worker (fetchChunk) is a   *)
(* process of its own, one step per operation another goroutine can see.   *)
(***************************************************************************)
EXTENDS Integers, Sequences, FiniteSets, TLC

(*************************** bounds of the model ***************************)
MaxLen == 3
MaxChunks == 2
MaxChunkSize == 1
NumCallers == 2
MaxRetries == 2

(*************************** program constants *****************************)
ProgressBuffer == 100
HeadFakeEnd == 10
DefaultRetries == 10

Callers == 1..NumCallers

Max(a, b) == IF a >= b THEN a ELSE b
Min(a, b) == IF a <= b THEN a ELSE b

RECURSIVE SumSeq(_)
SumSeq(s) ==
    IF s = <<>> THEN 0 ELSE Head(s) + SumSeq(Tail(s))

(************************ strings (header values) **************************)
\* A header value is a sequence of one-character strings; "" (absent) is <<>>.
Digits ==
    <<"0", "1", "2", "3", "4", "5", "6", "7", "8", "9">>

IsDigit(ch) ==
    \E d \in 1..10 : Digits[d] = ch

DigitVal(ch) ==
    (CHOOSE d \in 1..10 : Digits[d] = ch) - 1

RECURSIVE ParseDigits(_, _)
ParseDigits(s, acc) ==
    IF s = <<>> THEN acc
    ELSE ParseDigits(Tail(s), acc * 10 + DigitVal(Head(s)))

\* strconv.Atoi: optional sign, then one or more decimal digits.
Atoi(s) ==
    LET signed == s # <<>> /\ Head(s) \in {"+", "-"}
        body   == IF signed THEN Tail(s) ELSE s
        neg    == signed /\ Head(s) = "-"
    IN  IF body = <<>> \/ \E k \in 1..Len(body) : ~IsDigit(body[k])
        THEN [ok |-> FALSE, val |-> 0]
        ELSE [ok |-> TRUE,
              val |-> IF neg THEN 0 - ParseDigits(body, 0) ELSE ParseDigits(body, 0)]

\* decimal formatting of an integer (what the server writes in its headers)
RECURSIVE Itoa(_)
Itoa(n) ==
    IF n < 0 THEN <<"-">> \o Itoa(0 - n)
    ELSE IF n < 10 THEN <<Digits[n + 1]>>
    ELSE Itoa(n \div 10) \o <<Digits[(n % 10) + 1]>>

\* strings.Split(s, sep) for a one-character separator
RECURSIVE Split(_, _)
Split(s, sep) ==
    IF \A k \in 1..Len(s) : s[k] # sep THEN <<s>>
    ELSE LET p == CHOOSE k \in 1..Len(s) :
                      s[k] = sep /\ \A j \in 1..(k - 1) : s[j] # sep
         IN  <<SubSeq(s, 1, p - 1)>> \o Split(SubSeq(s, p + 1, Len(s)), sep)

BytesUnit ==
    <<"b", "y", "t", "e", "s">>

NonNumeric ==
    <<"x">>

Star ==
    <<"*">>

\* "bytes first-last/total"
ContentRange(first, last, total) ==
    BytesUnit \o <<" ">> \o Itoa(first) \o <<"-">> \o Itoa(last) \o <<"/">> \o total

(***************************** server and sink *****************************)
\* The resource: the byte at offset o is o+1 (never 0, so a hole shows).
Bytes(s, e) ==
    [k \in 1..(e - s) |-> s + k]

ErrPage ==
    <<255>>

\* os.File.WriteAt / Buffer.WriteAt: positional write, zero-filling a gap;
\* a write of no bytes leaves the length alone.
WriteAt(data, ra, off) ==
    IF Len(ra) = 0 THEN data
    ELSE [k \in 1..Max(Len(data), off + Len(ra)) |->
            IF k > off /\ k <= off + Len(ra) THEN ra[k - off]
            ELSE IF k <= Len(data) THEN data[k] ELSE 0]

\* the body is dropped
CopyNothing(data, body) ==
    data

\* io.Copy(sink, body): sequential write at the current end
CopyTo(data, body) ==
    data \o body

\* the error of Client.Do: the RetryClient turns every final non-2xx into an
\* error, a plain http.Client hands every response back.
ClientErr(kind, o) ==
    IF o.neterr THEN "TransportError"
    ELSE IF kind = "retry" /\ o.status >= 400 /\ o.status < 500 THEN "ErrStatusNope"
    ELSE IF kind = "retry" /\ (o.status >= 300 \/ o.status < 200) THEN "Non2xxStatus"
    ELSE ""

\* Client.Do: the error, or the response with its body
ClientDo(kind, o) ==
    IF ClientErr(kind, o) # ""
    THEN [err |-> ClientErr(kind, o), body |-> <<>>]
    ELSE [err |-> "", body |-> o.body]

\* What a server holding len bytes answers to GET Range: bytes=s-(e-1):
\* the exact range (416 when last < first); a server with faults may also
\* drop the connection, deliver the range one byte short, or answer 500.
RangeExact(len, s, e) ==
    IF e - 1 < s
    THEN [neterr |-> FALSE, status |-> 416, body |-> ErrPage, exact |-> TRUE]
    ELSE [neterr |-> FALSE, status |-> 206, body |-> Bytes(s, Min(e, len)), exact |-> TRUE]

RangeAnswers(faults, len, s, e) ==
    {RangeExact(len, s, e)}
    \cup (IF "neterr" \in faults
          THEN {[neterr |-> TRUE, status |-> 0, body |-> <<>>, exact |-> FALSE]}
          ELSE {})
    \cup (IF "short" \in faults /\ e > s
          THEN {[neterr |-> FALSE, status |-> 206,
                 body |-> Bytes(s, Min(e, len) - 1), exact |-> FALSE]}
          ELSE {})
    \cup (IF "status" \in faults
          THEN {[neterr |-> FALSE, status |-> 500, body |-> ErrPage, exact |-> FALSE]}
          ELSE {})

(********************************* state ***********************************)
VARIABLES
    env,            \* what the server and the application may do (fixed)
    rc,             \* the RetryClient and the Do call running on it
    maxSet,         \* history: the last non-zero value given to SetMax (0: none)
    chunkCount,     \* history: fileChunks as the constructor took it (at least 1)
    ver,            \* 1: src/rt.go, 2: the v2 engine
    resLen,         \* length of the resource the server holds
    workers,        \* rt.workers
    chunkSize,      \* rt.chunkSize (0: not set)
    client,         \* rt.client: "retry" (DefaultClient) or "plain" (http.Client)
    used,           \* rt.used (v1)
    sem,            \* rt.sem / info.Sem: [cap, held]
    wg,             \* rt.wg / info.WG counter
    fetchError,     \* rt.fetchError / info.Error ("" is nil)
    outFile,        \* rt.outFile / info.Out: [file, data, closed]
    progress,       \* rt.progress / info.Progress: [on, cap]
    chanBuf,        \* events buffered in the progress channel
    sent,           \* every event sent on the progress channel, in order
    recvd,          \* every event the consumer has received, in order
    pc,             \* position of each RoundTrip call
    reqBody,        \* r.Body of each call: "none" (nil), "open" or "closed"
    probe,          \* what HEAD and the head-fake GET answered to the call
    hres,           \* the call's probe response
    contentLength,  \* the call's contentLength
    csz,            \* the call's local chunkSize
    start,          \* the call's start
    end,            \* the call's end
    i,              \* the call's loop counter
    nloop,          \* the number of iterations of the dispatch loop
    result,         \* what the call returned
    wk,             \* the chunk workers each call spawned, in spawn order
    gets,           \* number of HTTP requests issued for each call
    honest          \* no fault so far: every range GET got its exact range, Stat worked

vars ==
    <<env, rc, maxSet, chunkCount, ver, resLen, workers, chunkSize, client, used, sem,
      wg, fetchError, outFile, progress, chanBuf, sent, recvd, pc, reqBody, probe, hres,
      contentLength, csz, start, end, i, nloop, result, wk, gets, honest>>

cfgVars ==
    <<env, rc, maxSet, chunkCount, ver, resLen, workers, chunkSize, client>>

callVars ==
    <<probe, hres, contentLength, csz, start, end, i, nloop>>

chanVars ==
    <<chanBuf, sent, recvd>>

\* v2 keeps the request state on the instance as v1 does
slotShared(c) ==
    1

\* v1 keeps the request state on the instance: every call shares slot 1.
\* v2 keeps it in the call's own rangeInfo.
slot(c) ==
    IF ver = 1 THEN 1 ELSE c

NoResponse ==
    [status |-> 0, cl |-> <<>>, ar |-> <<>>]

\* nothing asked yet: -1; a transport error: 0; otherwise the status;
\* whole is the error rt.fetch returned ("" is nil)
NoProbe ==
    [head |-> 0 - 1, hf |-> 0 - 1, cr |-> <<>>, ar |-> <<>>, whole |-> ""]

NoResult ==
    [kind |-> "none", err |-> "", body |-> "none"]

Ok(body) ==
    [kind |-> "ok", err |-> "", body |-> body]

Fail(e) ==
    [kind |-> "err", err |-> e, body |-> "none"]

\* NewWithLoggers: fileChunks < 1 is raised to 1; v1 creates the output
\* file and the semaphore of fileChunks+1 permits.
NewWithLoggers(v, fileChunks, len) ==
    LET n == IF fileChunks < 1 THEN 1 ELSE fileChunks IN
    /\ maxSet = 0
    /\ chunkCount = IF env.history THEN n ELSE 0
    /\ ver = v
    /\ resLen = len
    /\ workers = n
    /\ chunkSize = 0
    /\ client = "retry"
    /\ used = FALSE
    /\ sem = [s \in Callers |-> [cap |-> IF v = 1 THEN n + 1 ELSE 0, held |-> 0]]
    /\ wg = [s \in Callers |-> 0]
    /\ fetchError = [s \in Callers |-> ""]
    /\ outFile = [s \in Callers |-> [file |-> (v = 1), data |-> <<>>, closed |-> FALSE]]
    /\ progress = [s \in Callers |-> [on |-> FALSE, cap |-> 0]]
    /\ chanBuf = [s \in Callers |-> <<>>]
    /\ sent = [s \in Callers |-> <<>>]
    /\ recvd = [s \in Callers |-> <<>>]
    /\ pc = [c \in Callers |-> "idle"]
    /\ reqBody = [c \in Callers |-> "none"]
    /\ probe = [c \in Callers |-> NoProbe]
    /\ hres = [c \in Callers |-> NoResponse]
    /\ contentLength = [c \in Callers |-> 0]
    /\ csz = [c \in Callers |-> 0]
    /\ start = [c \in Callers |-> 0]
    /\ end = [c \in Callers |-> 0]
    /\ i = [c \in Callers |-> 0]
    /\ nloop = [c \in Callers |-> 0]
    /\ result = [c \in Callers |-> NoResult]
    /\ wk = [c \in Callers |-> <<>>]
    /\ gets = [c \in Callers |-> 0]
    /\ honest = TRUE

\* The environment of a run:
\*   probe   "ranged": HEAD answers 200 with the length and Accept-Ranges: bytes
\*           "any":    HEAD may also fail, answer 403 or 500, or leave headers out
\*   faults  what may go wrong: "neterr", "short" and "status" when the server
\*           answers a range GET, "stat" when the output file is stat'ed
\*   calls   how many times the application calls RoundTrip
\*   chans   whether the application attaches a progress channel
\*   bodies  whether the application sends requests that carry a body
\*   history whether the run keeps what the application asked for (maxSet,
\*           chunkCount), which the program itself does not keep
\*   faulty  the calls whose range GETs the faults may hit
\*   sinks   the sinks a v2 call may name: TRUE a file, FALSE a buffer
AnyEnv ==
    [probe |-> "any", faults |-> {"neterr", "short", "status", "stat"}, calls |-> NumCallers,
     chans |-> TRUE, bodies |-> TRUE, history |-> TRUE,
     faulty |-> Callers, sinks |-> BOOLEAN]

\* NewRetryClient(retries, every, timeout): a backoff list of `retries`
\* entries and ErrStatusNope blacklisted
NewRetryClient(retries) ==
    [retries |-> retries, pc |-> "idle", n |-> 0, log |-> <<>>, err |-> "", res |-> 0]

Start(versions, e) ==
    /\ env = e
    /\ rc = NewRetryClient(DefaultRetries)
    /\ \E v \in versions, fileChunks \in 0..MaxChunks, len \in 0..MaxLen :
          NewWithLoggers(v, fileChunks, len)

Init ==
    Start({1, 2}, AnyEnv)

Configuring ==
    \A c \in Callers : pc[c] = "idle"

(**************************** configuration ********************************)
SetClient ==
    /\ Configuring
    /\ client = "retry"
    /\ client' = "plain"
    /\ UNCHANGED <<reqBody, env, rc, maxSet, chunkCount, ver, resLen, workers, chunkSize,
                   used, sem, wg, fetchError,
                   outFile, progress, chanVars, pc, callVars, result, wk, gets, honest>>

\* the semaphore gets the larger of max and rt.workers+1 permits
MaxPermitsLarger(max, n) ==
    IF max > n + 1 THEN max ELSE n + 1

\* } else if max > rt.workers { max = rt.workers + 1 }
MaxPermits(max, n) ==
    IF max > n THEN n + 1 ELSE max

\* v1: 0 is ignored, a value above rt.workers becomes rt.workers+1, and the
\* semaphore is replaced.  v2: 0 is ignored, otherwise rt.workers = max.
SetMax(max) ==
    /\ Configuring
    /\ maxSet' = IF max = 0 \/ ~env.history THEN maxSet ELSE max
    /\ IF max = 0
       THEN UNCHANGED <<sem, workers>>
       ELSE IF ver = 1
            THEN /\ sem' = [sem EXCEPT ![1] =
                              [cap |-> MaxPermits(max, workers), held |-> 0]]
                 /\ UNCHANGED workers
            ELSE /\ workers' = max
                 /\ UNCHANGED sem
    /\ UNCHANGED <<reqBody, env, rc, chunkCount, ver, resLen, chunkSize, client, used, wg,
                   fetchError,
                   outFile, progress, chanVars, pc, callVars, result, wk, gets, honest>>

SetChunkSize(chunkBytes) ==
    /\ Configuring
    /\ chunkSize' = IF chunkBytes < 1 THEN 1 ELSE chunkBytes
    /\ UNCHANGED <<reqBody, env, rc, maxSet, chunkCount, ver, resLen, workers, client,
                   used, sem, wg, fetchError,
                   outFile, progress, chanVars, pc, callVars, result, wk, gets, honest>>

\* v1 only: the channel of 100 slots is made on the first call.
WithProgress ==
    /\ Configuring
    /\ env.chans
    /\ ver = 1
    /\ ~progress[1].on
    /\ progress' = [progress EXCEPT ![1] = [on |-> TRUE, cap |-> ProgressBuffer]]
    /\ UNCHANGED <<reqBody, cfgVars, used, sem, wg, fetchError, outFile, chanVars, pc,
                   callVars, result, wk, gets, honest>>

(***************************** progress channel ****************************)
\* A send on an unbuffered channel hands the value to the receiving consumer;
\* a send on a buffered channel needs a free slot.
CanSend(s) ==
    progress[s].cap = 0 \/ Len(chanBuf[s]) < progress[s].cap

Send(s, v) ==
    /\ CanSend(s)
    /\ sent' = [sent EXCEPT ![s] = Append(@, v)]
    /\ IF progress[s].cap = 0
       THEN /\ recvd' = [recvd EXCEPT ![s] = Append(@, v)]
            /\ UNCHANGED chanBuf
       ELSE /\ chanBuf' = [chanBuf EXCEPT ![s] = Append(@, v)]
            /\ UNCHANGED recvd

\* the consumer of the channel takes the next buffered event
Consume(s) ==
    /\ chanBuf[s] # <<>>
    /\ recvd' = [recvd EXCEPT ![s] = Append(@, Head(chanBuf[s]))]
    /\ chanBuf' = [chanBuf EXCEPT ![s] = Tail(@)]
    /\ UNCHANGED <<reqBody, cfgVars, used, sem, wg, fetchError, outFile, progress, sent,
                   pc, callVars, result, wk, gets, honest>>

(******************************** RoundTrip ********************************)
\* if r.Body != nil { defer r.Body.Close() }
CloseBody(b) ==
    IF b = "open" THEN "closed" ELSE b

\* every return after the guard runs the deferred Close of the output file
\* and of the request body
Ret(c, r, o) ==
    /\ pc' = [pc EXCEPT ![c] = "returned"]
    /\ result' = [result EXCEPT ![c] = r]
    /\ outFile' = [outFile EXCEPT ![slot(c)] = [o EXCEPT !.closed = o.file]]
    /\ reqBody' = [reqBody EXCEPT ![c] = CloseBody(@)]

HeadFailed(st) ==
    CASE st = 403 -> "HeadFailed403"
      [] st = 500 -> "HeadFailed500"
      [] OTHER -> "HeadFailed"

\* which of the whole-body paths the call is on
Via(c) ==
    IF hres[c].status \notin {200, 206} THEN "headfake200"
    ELSE IF hres[c].cl = <<>> THEN "nolength"
    ELSE "norange"

\* the body of the response a whole-body path returns
WholeBody(c, o) ==
    IF ver = 2 /\ Via(c) = "norange" /\ ~o.file THEN "sink" ELSE "orig"

\* rt.used.Store(true) in place of Swap: the previous value is lost
SwapForgets(u) ==
    [old |-> FALSE, new |-> TRUE]

\* rt.used.Swap(true)
Swap(u) ==
    [old |-> u, new |-> TRUE]

\* Calls are numbered in the order in which they enter RoundTrip.
\* v1: test-and-set of rt.used.  v2: a fresh rangeInfo, the semaphore of
\* rt.workers+1 permits, the sink and the progress channel of the context.
RoundTrip(c) ==
    /\ pc[c] = "idle"
    /\ c <= env.calls
    /\ \A d \in Callers : d < c => pc[d] # "idle"
    /\ \E b \in {"none"} \cup (IF env.bodies THEN {"open"} ELSE {}) :
          reqBody' = [reqBody EXCEPT ![c] = b]
    /\ IF ver = 1
       THEN /\ used' = Swap(used).new
            /\ IF Swap(used).old
               THEN /\ pc' = [pc EXCEPT ![c] = "returned"]
                    /\ result' = [result EXCEPT ![c] = Fail("SingleRequestExhaustedError")]
               ELSE /\ pc' = [pc EXCEPT ![c] = "head"]
                    /\ UNCHANGED result
            /\ UNCHANGED <<sem, outFile, progress>>
       ELSE /\ UNCHANGED used
            /\ sem' = [sem EXCEPT ![c] = [cap |-> workers + 1, held |-> 0]]
            /\ \E toFile \in env.sinks, created \in BOOLEAN, withChan \in {FALSE, env.chans} :
                 IF toFile /\ ~created
                 THEN /\ pc' = [pc EXCEPT ![c] = "returned"]
                      /\ result' = [result EXCEPT ![c] = Fail("CreateError")]
                      /\ UNCHANGED <<outFile, progress>>
                 ELSE /\ created
                      /\ pc' = [pc EXCEPT ![c] = "head"]
                      /\ outFile' = [outFile EXCEPT ![c] =
                                       [file |-> toFile, data |-> <<>>, closed |-> FALSE]]
                      /\ progress' = [progress EXCEPT ![c] = [on |-> withChan, cap |-> 0]]
                      /\ UNCHANGED result
    /\ UNCHANGED <<cfgVars, wg, fetchError, chanVars, callVars, wk, gets, honest>>

HeadAnswers ==
    IF env.probe = "ranged"
    THEN {[neterr |-> FALSE, status |-> 200, cl |-> Itoa(resLen), ar |-> BytesUnit]}
    ELSE {[neterr |-> TRUE, status |-> 0, cl |-> <<>>, ar |-> <<>>],
          [neterr |-> FALSE, status |-> 403, cl |-> <<>>, ar |-> <<>>],
          [neterr |-> FALSE, status |-> 500, cl |-> <<>>, ar |-> <<>>]}
         \cup [neterr : {FALSE}, status : {200, 206},
               cl : {<<>>, Itoa(resLen), NonNumeric}, ar : {BytesUnit, <<>>}]

\* the probe goes through the client installed with SetClient
ProbeClientInjected ==
    client

\* rt.head and rt.headFake call http.DefaultClient.Do: a plain http.Client
ProbeClient ==
    "plain"

\* every failed HEAD is taken to the head-fake
NeedsHeadFakeAnyFailure(o) ==
    o.neterr \/ o.status \notin {200, 206}

\* the head-fake is tried when HEAD errored or returned 403
NeedsHeadFake(o) ==
    ClientErr(ProbeClient, o) # "" \/ o.status = 403

\* rt.head and the status test that follows it
head(c) ==
    /\ pc[c] = "head"
    /\ gets' = [gets EXCEPT ![c] = @ + 1]
    /\ \E o \in HeadAnswers :
         /\ hres' = [hres EXCEPT ![c] = [status |-> o.status, cl |-> o.cl, ar |-> o.ar]]
         /\ probe' = [probe EXCEPT ![c].head = o.status]
         /\ IF NeedsHeadFake(o)
            THEN /\ pc' = [pc EXCEPT ![c] = "headfake"]
                 /\ UNCHANGED <<result, outFile, reqBody>>
            ELSE IF o.status \notin {200, 206}
            THEN Ret(c, Fail(HeadFailed(o.status)), outFile[slot(c)])
            ELSE /\ pc' = [pc EXCEPT ![c] = "parse"]
                 /\ UNCHANGED <<result, outFile, reqBody>>
    /\ UNCHANGED <<cfgVars, used, sem, wg, fetchError, progress, chanVars,
                   contentLength, csz, start, end, i, nloop, wk, honest>>

HeadFakeAnswers ==
    LET last == Min(HeadFakeEnd, resLen - 1)
        own  == Itoa(last + 1)
    IN  {[neterr |-> TRUE, status |-> 0, cr |-> <<>>, cl |-> <<>>, ar |-> <<>>],
         [neterr |-> FALSE, status |-> 200, cr |-> <<>>, cl |-> Itoa(resLen), ar |-> <<>>],
         [neterr |-> FALSE, status |-> 500, cr |-> <<>>, cl |-> <<>>, ar |-> <<>>]}
        \cup [neterr : {FALSE}, status : {206},
              cr : {ContentRange(0, last, Itoa(resLen)), ContentRange(0, last, Star), <<>>},
              cl : {own}, ar : {BytesUnit, <<>>}]

\* the Accept-Ranges header of the 206 is left as the server sent it
KeepRanges(ar) ==
    ar

\* if v := Accept-Ranges; v != "bytes" { Set("Accept-Ranges", "bytes") }
ForceRanges(ar) ==
    IF ar # BytesUnit THEN BytesUnit ELSE ar

\* the head-fake's sentinel is handed to the caller
SentinelError(c) ==
    "headFakeFailedError"

\* the 206 keeps the Content-Length it came with
SynthLengthOwn(parts, own) ==
    own

\* if len(parts) == 2 { hfres.Header.Set("Content-Length", parts[1]) }
SynthLength(parts, own) ==
    IF Len(parts) = 2 THEN parts[2] ELSE own

\* the error RoundTrip falls back to when the head-fake does not help
PreviousError(c) ==
    IF hres[c].status = 0 THEN "HeadTransportError" ELSE HeadFailed(hres[c].status)

\* rt.tryHeadFake (with rt.headFake) and the branch of RoundTrip that called it
TryHeadFake(c) ==
    /\ pc[c] = "headfake"
    /\ gets' = [gets EXCEPT ![c] = @ + 1]
    /\ \E o \in HeadFakeAnswers :
         /\ probe' = [probe EXCEPT ![c].hf = o.status, ![c].cr = o.cr, ![c].ar = o.ar]
         /\ IF ClientErr(ProbeClient, o) # "" \/ o.status \notin {200, 206}
            THEN /\ Ret(c, Fail(PreviousError(c)), outFile[slot(c)])
                 /\ UNCHANGED hres
            ELSE IF o.status = 200
            THEN LET out == [outFile[slot(c)] EXCEPT !.data = CopyTo(@, Bytes(0, resLen))] IN
                 /\ UNCHANGED hres
                 /\ IF ver = 2 /\ progress[slot(c)].on
                    THEN /\ pc' = [pc EXCEPT ![c] = "sendn"]
                         /\ outFile' = [outFile EXCEPT ![slot(c)] = out]
                         /\ UNCHANGED <<result, reqBody>>
                    ELSE Ret(c, Ok("orig"), out)
            ELSE LET parts == Split(o.cr, "/") IN
                 /\ hres' = [hres EXCEPT ![c] =
                               [status |-> 206,
                                cl |-> SynthLength(parts, o.cl),
                                ar |-> ForceRanges(o.ar)]]
                 /\ pc' = [pc EXCEPT ![c] = "parse"]
                 /\ UNCHANGED <<result, outFile, reqBody>>
    /\ UNCHANGED <<cfgVars, used, sem, wg, fetchError, progress, chanVars,
                   contentLength, csz, start, end, i, nloop, wk, honest>>

\* if end+1 < contentLength: a one-byte remainder gets no gap chunk
GapNeededOffByOne(e, len) ==
    e + 1 < len

\* if end < contentLength: the gap chunk
GapNeeded(e, len) ==
    e < len

\* where the dispatch loop stands after an iteration
AfterIter(done, n, e, len) ==
    IF done < n THEN "loop" ELSE IF GapNeeded(e, len) THEN "gap" ELSE "wait"

\* the chunk size rounded up, so that the loop's chunks cover the length
PlanSizeCeil(len) ==
    IF chunkSize # 0 THEN chunkSize ELSE (len + workers - 1) \div workers

\* the chunk plan: chunkSize and, in fixed-size mode, rt.workers
PlanSize(len) ==
    IF chunkSize # 0 THEN chunkSize ELSE len \div workers

PlanWorkers(len) ==
    IF chunkSize # 0 THEN len \div chunkSize ELSE workers

\* contentLength / rt.workers is computed first, in either mode: with
\* rt.workers = 0 it is a run-time panic (integer divide by zero)
Plan(c, len, to) ==
    IF workers = 0
    THEN /\ pc' = [pc EXCEPT ![c] = "panic"]
         /\ UNCHANGED <<csz, workers, nloop>>
    ELSE /\ csz' = [csz EXCEPT ![c] = PlanSize(len)]
         /\ workers' = PlanWorkers(len)
         /\ nloop' = [nloop EXCEPT ![c] = PlanWorkers(len)]
         /\ pc' = [pc EXCEPT ![c] = to]

Planned(len) ==
    AfterIter(0, PlanWorkers(len), 0, len)

NoPlan(c, to) ==
    /\ pc' = [pc EXCEPT ![c] = to]
    /\ UNCHANGED <<csz, workers, nloop>>

\* a missing Content-Length is handed to the number parser
LengthAbsentNever(cl) ==
    FALSE

\* if cl := hres.Header.Get("Content-Length"); cl == ""
LengthAbsent(cl) ==
    cl = <<>>

\* every response is taken to support ranges
AcceptsAlways(ar) ==
    TRUE

\* if v := hres.Header.Get("Accept-Ranges"); v == "bytes"
AcceptsRanges(ar) ==
    ar = BytesUnit

\* the length is never reported
AnnouncesNever(ch) ==
    FALSE

\* if rt.progress != nil: the content length is reported on the channel
Announces(ch) ==
    ch.on

\* the Content-Length test; v1 plans before it reports the length,
\* v2 reports the length before it looks at Accept-Ranges
ParseLength(c) ==
    /\ pc[c] = "parse"
    /\ LET cl == hres[c].cl
           n  == Atoi(cl)
       IN  IF LengthAbsent(cl)
           THEN /\ NoPlan(c, "fetch")
                /\ UNCHANGED <<contentLength, result, outFile, reqBody>>
           ELSE IF ~n.ok
           THEN /\ Ret(c, Fail("ContentLengthNumericError"), outFile[slot(c)])
                /\ UNCHANGED <<contentLength, csz, workers, nloop>>
           ELSE /\ contentLength' = [contentLength EXCEPT ![c] = n.val]
                /\ UNCHANGED <<result, outFile, reqBody>>
                /\ IF ver = 1
                   THEN IF AcceptsRanges(hres[c].ar)
                        THEN Plan(c, n.val, IF Announces(progress[slot(c)]) THEN "sendlen"
                                                                     ELSE Planned(n.val))
                        ELSE NoPlan(c, "fetch")
                   ELSE IF Announces(progress[slot(c)])
                        THEN NoPlan(c, "sendlen")
                        ELSE IF AcceptsRanges(hres[c].ar)
                             THEN Plan(c, n.val, Planned(n.val))
                             ELSE NoPlan(c, "fetch")
    /\ UNCHANGED <<env, rc, maxSet, chunkCount, ver, resLen, chunkSize, client, used,
                   sem, wg, fetchError,
                   progress, chanVars, probe, hres, start, end, i, wk, gets, honest>>

\* rt.progress <- int64(contentLength)
SendLength(c) ==
    /\ pc[c] = "sendlen"
    /\ Send(slot(c), contentLength[c])
    /\ IF ver = 1
       THEN NoPlan(c, AfterIter(0, workers, 0, contentLength[c]))
       ELSE IF AcceptsRanges(hres[c].ar)
            THEN Plan(c, contentLength[c], Planned(contentLength[c]))
            ELSE NoPlan(c, "fetch")
    /\ UNCHANGED <<reqBody, env, rc, maxSet, chunkCount, ver, resLen, chunkSize, client,
                   used, sem, wg, fetchError,
                   outFile, progress, probe, hres, contentLength, start, end, i,
                   result, wk, gets, honest>>

\* v1 re-reads rt.workers on every iteration, v2 ranges over it once
LoopBound(c) ==
    IF ver = 1 THEN workers ELSE nloop[c]

\* status is what the range GET ended in (0: nothing yet, or a transport
\* error), got the number of bytes the worker read from its response
NewWorker(s, e) ==
    [start |-> s, end |-> e, pc |-> "get", err |-> "", status |-> 0, got |-> 0]

\* Lock() that never blocks
HasPermitAlways(m) ==
    TRUE

\* sem.Lock() blocks while every permit is taken
HasPermit(m) ==
    m.held < m.cap

Lock(s) ==
    /\ HasPermit(sem[s])
    /\ sem' = [sem EXCEPT ![s].held = @ + 1]

\* the error cell is never looked at
FailedNever(cell) ==
    FALSE

\* if ferr := rt.fetchError.Load(); ferr != nil
Failed(cell) ==
    cell # ""

\* top of the dispatch loop: take a permit, then look at the error cell
LoopLock(c) ==
    /\ pc[c] = "loop"
    /\ Lock(slot(c))
    /\ IF Failed(fetchError[slot(c)])
       THEN Ret(c, Fail(fetchError[slot(c)]), outFile[slot(c)])
       ELSE /\ pc' = [pc EXCEPT ![c] = "spawn"]
            /\ UNCHANGED <<result, outFile, reqBody>>
    /\ UNCHANGED <<cfgVars, used, wg, fetchError, progress, chanVars, callVars,
                   wk, gets, honest>>

\* wg.Add(1); end = start + chunkSize; go fetchChunk(start, end); start = end
LoopSpawn(c) ==
    /\ pc[c] = "spawn"
    /\ wg' = [wg EXCEPT ![slot(c)] = @ + 1]
    /\ end' = [end EXCEPT ![c] = start[c] + csz[c]]
    /\ wk' = [wk EXCEPT ![c] = Append(@, NewWorker(start[c], start[c] + csz[c]))]
    /\ start' = [start EXCEPT ![c] = start[c] + csz[c]]
    /\ i' = [i EXCEPT ![c] = @ + 1]
    /\ pc' = [pc EXCEPT ![c] =
                AfterIter(i[c] + 1, LoopBound(c), start[c] + csz[c], contentLength[c])]
    /\ UNCHANGED <<reqBody, cfgVars, used, sem, fetchError, outFile, progress, chanVars,
                   probe, hres, contentLength, csz, nloop, result, gets, honest>>

\* the gap chunk: sem.Lock(); wg.Add(1); go fetchChunk(end, contentLength)
GapSpawn(c) ==
    /\ pc[c] = "gap"
    /\ Lock(slot(c))
    /\ wg' = [wg EXCEPT ![slot(c)] = @ + 1]
    /\ start' = [start EXCEPT ![c] = end[c]]
    /\ end' = [end EXCEPT ![c] = contentLength[c]]
    /\ wk' = [wk EXCEPT ![c] = Append(@, NewWorker(end[c], contentLength[c]))]
    /\ pc' = [pc EXCEPT ![c] = "wait"]
    /\ UNCHANGED <<reqBody, cfgVars, used, fetchError, outFile, progress, chanVars,
                   probe, hres, contentLength, csz, i, nloop, result, gets, honest>>

\* size of the sink as the verification sees it
SinkSize(o) ==
    Len(o.data)

\* the size test left out
SizeUnchecked(size, len) ==
    TRUE

\* fileSize != int64(contentLength) fails the download
SizeMatches(size, len) ==
    size = len

\* wg.Wait(), the error cell, the size verification and the return
Join(c) ==
    /\ pc[c] = "wait"
    /\ wg[slot(c)] = 0
    /\ LET o == outFile[slot(c)] IN
       IF Failed(fetchError[slot(c)])
       THEN /\ Ret(c, Fail(fetchError[slot(c)]), o)
            /\ UNCHANGED honest
       ELSE \E statOk \in {TRUE} \cup {~("stat" \in env.faults)} :
              IF o.file /\ ~statOk
              THEN /\ Ret(c, Fail("StatError"), o)
                   /\ honest' = FALSE
              ELSE /\ statOk
                   /\ UNCHANGED honest
                   /\ IF ~SizeMatches(SinkSize(o), contentLength[c])
                      THEN Ret(c, Fail("ContentLengthMismatchError"), o)
                      ELSE Ret(c, Ok(IF ver = 2 THEN "sink" ELSE "orig"), o)
    /\ UNCHANGED <<cfgVars, used, sem, wg, fetchError, progress, chanVars,
                   callVars, wk, gets>>

WholeAnswers ==
    {[neterr |-> TRUE, status |-> 0, body |-> <<>>],
     [neterr |-> FALSE, status |-> 200, body |-> Bytes(0, resLen)],
     [neterr |-> FALSE, status |-> 500, body |-> ErrPage]}

\* rt.fetch and the return that follows it: the error is returned on the
\* no-Content-Length path and dropped on the no-Accept-Ranges path
fetch(c) ==
    /\ pc[c] = "fetch"
    /\ gets' = [gets EXCEPT ![c] = @ + 1]
    /\ \E o \in WholeAnswers :
         LET r   == ClientDo(client, o)
             out == [outFile[slot(c)] EXCEPT !.data = CopyTo(@, r.body)]
         IN  /\ probe' = [probe EXCEPT ![c].whole = r.err]
             /\ IF r.err # ""
                THEN IF Via(c) = "nolength"
                     THEN Ret(c, Fail(r.err), out)
                     ELSE Ret(c, Ok(WholeBody(c, out)), out)
                ELSE IF ver = 2 /\ progress[slot(c)].on
                     THEN /\ pc' = [pc EXCEPT ![c] = "sendn"]
                          /\ outFile' = [outFile EXCEPT ![slot(c)] = out]
                          /\ UNCHANGED <<result, reqBody>>
                     ELSE Ret(c, Ok(WholeBody(c, out)), out)
    /\ UNCHANGED <<cfgVars, used, sem, wg, fetchError, progress, chanVars,
                   hres, contentLength, csz, start, end, i, nloop, wk, honest>>

\* v2: info.Progress <- n after a whole-body copy, then the return
SendCopied(c) ==
    /\ pc[c] = "sendn"
    /\ Send(slot(c), Len(outFile[slot(c)].data))
    /\ Ret(c, Ok(WholeBody(c, outFile[slot(c)])), outFile[slot(c)])
    /\ UNCHANGED <<cfgVars, used, sem, wg, fetchError, progress, callVars,
                   wk, gets, honest>>

(******************************* fetchChunk ********************************)
Workers(c) ==
    1..Len(wk[c])

\* outFile.WriteAt(ra, end): the chunk lands one chunk too far
ChunkOffsetEnd(w) ==
    w.end

\* outFile.WriteAt(ra, start)
ChunkOffset(w) ==
    w.start

\* the worker's error never reaches the cell
StoredNever(cell, err) ==
    cell

\* every worker stores its outcome, nil included
StoredAlways(cell, err) ==
    err

\* deferred, first to run: if err != nil { fetchError.Store(err) }
Stored(cell, err) ==
    IF err # "" THEN err ELSE cell

\* the range GET through rt.client, ReadAll, WriteAt at the chunk's start,
\* and the deferred store of the error (nothing another goroutine reads
\* changes between the return of the body and that store)
FetchChunk(c, k) ==
    /\ wk[c][k].pc = "get"
    /\ gets' = [gets EXCEPT ![c] = @ + 1]
    /\ \E o \in RangeAnswers(IF c \in env.faulty THEN env.faults ELSE {}, resLen,
                              wk[c][k].start, wk[c][k].end) :
         LET r == ClientDo(client, o)
             f == outFile[slot(c)]
             e == IF r.err # "" THEN r.err
                  ELSE IF f.file /\ f.closed THEN "ErrClosed" ELSE ""
         IN  /\ honest' = (honest /\ o.exact)
             /\ wk' = [wk EXCEPT ![c][k].err = e, ![c][k].pc = "done",
                                 ![c][k].status = o.status,
                                 ![c][k].got = Len(r.body)]
             /\ fetchError' = [fetchError EXCEPT ![slot(c)] = Stored(@, e)]
             /\ outFile' = IF e # "" THEN outFile
                           ELSE [outFile EXCEPT ![slot(c)].data =
                                   WriteAt(@, r.body, ChunkOffset(wk[c][k]))]
    /\ UNCHANGED <<reqBody, cfgVars, used, sem, wg, progress, chanVars, pc,
                   callVars, result>>

\* deferred: wg.Done()
Done(c, k) ==
    /\ wk[c][k].pc = "done"
    /\ wg' = [wg EXCEPT ![slot(c)] = @ - 1]
    /\ wk' = [wk EXCEPT ![c][k].pc = "unlock"]
    /\ UNCHANGED <<reqBody, cfgVars, used, sem, fetchError, outFile, progress, chanVars,
                   pc, callVars, result, gets, honest>>

\* the worker ends without pushing its event
AfterUnlockEnds(ch) ==
    "end"

\* the deferred call registered first runs last: the push of the event,
\* when a progress channel is attached
AfterUnlock(ch) ==
    IF ch.on THEN "push" ELSE "end"

\* the permit is kept
ReleaseNothing(held) ==
    held

\* Unlock gives one permit back
Release(held) ==
    held - 1

\* deferred: sem.Unlock()
Unlock(c, k) ==
    /\ wk[c][k].pc = "unlock"
    /\ sem' = [sem EXCEPT ![slot(c)].held = Release(@)]
    /\ wk' = [wk EXCEPT ![c][k].pc = AfterUnlock(progress[slot(c)])]
    /\ UNCHANGED <<reqBody, cfgVars, used, wg, fetchError, outFile, progress, chanVars,
                   pc, callVars, result, gets, honest>>

\* progress <- end: the offset is pushed, not the width
DeltaIsEnd(w) ==
    w.end

\* the value of a per-chunk progress event
Delta(w) ==
    w.end - w.start

\* deferred, last to run: progress <- end - start
PushProgress(c, k) ==
    /\ wk[c][k].pc = "push"
    /\ Send(slot(c), Delta(wk[c][k]))
    /\ wk' = [wk EXCEPT ![c][k].pc = "end"]
    /\ UNCHANGED <<reqBody, cfgVars, used, sem, wg, fetchError, outFile, progress, pc,
                   callVars, result, gets, honest>>

(***************************** RetryClient.Do ******************************)
\* what one attempt (w.client.Do) can end in; status 0 is a transport error
AttemptAnswers ==
    {[neterr |-> TRUE, status |-> 0, body |-> <<>>]}
    \cup {[neterr |-> FALSE, status |-> st, body |-> <<>>] : st \in {200, 204, 302, 404, 500}}

\* a classifier with an empty blacklist: every error is retried
ClassifyRetryAll(err) ==
    IF err = "" THEN "Succeed" ELSE "Retry"

\* retrier.BlacklistClassifier{ErrStatusNope}: nil succeeds, a blacklisted
\* error fails, every other error is retried
Classify(err) ==
    IF err = "" THEN "Succeed"
    ELSE IF err = "ErrStatusNope" THEN "Fail"
    ELSE "Retry"

\* one attempt more than the backoff list allows
ExhaustedLate(n, retries) ==
    n > retries

\* retrier.Run: retries >= len(r.backoff) ends the loop
Exhausted(n, retries) ==
    n >= retries

\* w.retrier.Run(try) is entered: the retry counter starts at 0
RetryDo ==
    /\ rc.pc # "try"
    /\ rc' = [NewRetryClient(rc.retries) EXCEPT !.pc = "try"]
    /\ UNCHANGED <<reqBody, env, maxSet, chunkCount, ver, resLen, workers, chunkSize,
                   client, used, sem, wg,
                   fetchError, outFile, progress, chanVars, pc, callVars, result,
                   wk, gets, honest>>

\* one pass of the loop of retrier.Run: the try closure, its classification,
\* and either the return of Do or the next round
RetryTry ==
    /\ rc.pc = "try"
    /\ \E o \in AttemptAnswers :
         LET r == ClientDo("retry", o) IN
         rc' = IF Classify(r.err) = "Retry" /\ ~Exhausted(rc.n, rc.retries)
               THEN [rc EXCEPT !.log = Append(@, o.status), !.n = @ + 1]
               ELSE [rc EXCEPT !.log = Append(@, o.status), !.pc = "returned",
                               !.err = r.err,
                               !.res = IF r.err = "" THEN o.status ELSE 0]
    /\ UNCHANGED <<reqBody, env, maxSet, chunkCount, ver, resLen, workers, chunkSize,
                   client, used, sem, wg,
                   fetchError, outFile, progress, chanVars, pc, callVars, result,
                   wk, gets, honest>>

(****************************** specification ******************************)
Next ==
    \/ SetClient
    \/ \E m \in 0..MaxChunks : SetMax(m)
    \/ \E b \in 0..MaxChunkSize : SetChunkSize(b)
    \/ WithProgress
    \/ \E s \in Callers : Consume(s)
    \/ \E c \in Callers : RoundTrip(c)
    \/ \E c \in Callers : head(c)
    \/ \E c \in Callers : TryHeadFake(c)
    \/ \E c \in Callers : ParseLength(c)
    \/ \E c \in Callers : SendLength(c)
    \/ \E c \in Callers : LoopLock(c)
    \/ \E c \in Callers : LoopSpawn(c)
    \/ \E c \in Callers : GapSpawn(c)
    \/ \E c \in Callers : Join(c)
    \/ \E c \in Callers : fetch(c)
    \/ \E c \in Callers : SendCopied(c)
    \/ \E c \in Callers : \E k \in Workers(c) : FetchChunk(c, k)
    \/ \E c \in Callers : \E k \in Workers(c) : Done(c, k)
    \/ \E c \in Callers : \E k \in Workers(c) : Unlock(c, k)
    \/ \E c \in Callers : \E k \in Workers(c) : PushProgress(c, k)

Spec ==
    Init /\ [][Next]_vars

(* The ranged engine alone: the probe succeeds, one call, no progress channel. *)
EngineEnv ==
    [probe |-> "ranged", faults |-> {"neterr", "short", "stat"}, calls |-> 1,
     chans |-> FALSE, bodies |-> FALSE, history |-> FALSE,
     faulty |-> Callers, sinks |-> BOOLEAN]

InitEngine ==
    Start({1, 2}, EngineEnv)

NextEngine ==
    \/ \E m \in 0..MaxChunks : SetMax(m)
    \/ \E b \in 0..MaxChunkSize : SetChunkSize(b)
    \/ \E c \in Callers : RoundTrip(c)
    \/ \E c \in Callers : head(c)
    \/ \E c \in Callers : ParseLength(c)
    \/ \E c \in Callers : LoopLock(c)
    \/ \E c \in Callers : LoopSpawn(c)
    \/ \E c \in Callers : GapSpawn(c)
    \/ \E c \in Callers : Join(c)
    \/ \E c \in Callers : \E k \in Workers(c) : FetchChunk(c, k)
    \/ \E c \in Callers : \E k \in Workers(c) : Done(c, k)
    \/ \E c \in Callers : \E k \in Workers(c) : Unlock(c, k)

SpecEngine ==
    InitEngine /\ [][NextEngine]_vars

(* The v1 instance called several times, against a server without faults. *)
GuardEnv ==
    [probe |-> "ranged", faults |-> {}, calls |-> NumCallers,
     chans |-> FALSE, bodies |-> TRUE, history |-> FALSE,
     faulty |-> Callers, sinks |-> BOOLEAN]

InitGuard ==
    Start({1}, GuardEnv)

SpecGuard ==
    InitGuard /\ [][NextEngine]_vars

(* The ranged engine with a progress channel attached and a consumer. *)
ProgressEnv ==
    [probe |-> "ranged", faults |-> {"neterr", "short", "stat"}, calls |-> 1,
     chans |-> TRUE, bodies |-> FALSE, history |-> FALSE,
     faulty |-> Callers, sinks |-> BOOLEAN]

InitProgress ==
    Start({1, 2}, ProgressEnv)

NextProgress ==
    \/ \E m \in 0..MaxChunks : SetMax(m)
    \/ \E b \in 0..MaxChunkSize : SetChunkSize(b)
    \/ WithProgress
    \/ \E s \in Callers : Consume(s)
    \/ \E c \in Callers : RoundTrip(c)
    \/ \E c \in Callers : head(c)
    \/ \E c \in Callers : ParseLength(c)
    \/ \E c \in Callers : SendLength(c)
    \/ \E c \in Callers : LoopLock(c)
    \/ \E c \in Callers : LoopSpawn(c)
    \/ \E c \in Callers : GapSpawn(c)
    \/ \E c \in Callers : Join(c)
    \/ \E c \in Callers : \E k \in Workers(c) : FetchChunk(c, k)
    \/ \E c \in Callers : \E k \in Workers(c) : Done(c, k)
    \/ \E c \in Callers : \E k \in Workers(c) : Unlock(c, k)
    \/ \E c \in Callers : \E k \in Workers(c) : PushProgress(c, k)

SpecProgress ==
    InitProgress /\ [][NextProgress]_vars

(* Reuse of a v2 instance: two calls on one RangeTripper, one after the      *)
(* other or at the same time, each with its own rangeInfo; range GETs may   *)
(* fail in the first call only, the sinks are buffers.                       *)
ReuseEnv ==
    [probe |-> "ranged", faults |-> {"neterr"}, calls |-> 2,
     chans |-> FALSE, bodies |-> FALSE, history |-> TRUE,
     faulty |-> {1}, sinks |-> {FALSE}]

InitReuse ==
    Start({2}, ReuseEnv)

NextReuse ==
    \/ \E b \in 0..MaxChunkSize : SetChunkSize(b)
    \/ \E c \in Callers : RoundTrip(c)
    \/ \E c \in Callers : head(c)
    \/ \E c \in Callers : ParseLength(c)
    \/ \E c \in Callers : LoopLock(c)
    \/ \E c \in Callers : LoopSpawn(c)
    \/ \E c \in Callers : GapSpawn(c)
    \/ \E c \in Callers : Join(c)
    \/ \E c \in Callers : \E k \in Workers(c) : FetchChunk(c, k)
    \/ \E c \in Callers : \E k \in Workers(c) : Done(c, k)
    \/ \E c \in Callers : \E k \in Workers(c) : Unlock(c, k)

SpecReuse ==
    InitReuse /\ [][NextReuse]_vars

(* Termination: one ranged call with or without a progress channel, range   *)
(* GETs that may fail. Every step of the call and of its workers is a step   *)
(* of a goroutine the scheduler runs when it can run, the sub-requests end,  *)
(* and the consumer of the progress channel keeps receiving: the steps other *)
(* than configuration and the start of the call are taken when they stay     *)
(* enabled.                                                                  *)
LiveEnv ==
    [probe |-> "ranged", faults |-> {"neterr"}, calls |-> 1,
     chans |-> TRUE, bodies |-> FALSE, history |-> FALSE,
     faulty |-> Callers, sinks |-> BOOLEAN]

InitLive ==
    Start({1, 2}, LiveEnv)

Running ==
    \/ \E s \in Callers : Consume(s)
    \/ \E c \in Callers : head(c)
    \/ \E c \in Callers : ParseLength(c)
    \/ \E c \in Callers : SendLength(c)
    \/ \E c \in Callers : LoopLock(c)
    \/ \E c \in Callers : LoopSpawn(c)
    \/ \E c \in Callers : GapSpawn(c)
    \/ \E c \in Callers : Join(c)
    \/ \E c \in Callers : \E k \in Workers(c) : FetchChunk(c, k)
    \/ \E c \in Callers : \E k \in Workers(c) : Done(c, k)
    \/ \E c \in Callers : \E k \in Workers(c) : Unlock(c, k)
    \/ \E c \in Callers : \E k \in Workers(c) : PushProgress(c, k)

SpecLive ==
    InitLive /\ [][NextProgress]_vars /\ WF_vars(Running)

(* The probe and what follows it: HEAD and the head-fake may answer anything, *)
(* the range GETs are answered exactly; one call.                           *)
ProbeEnv ==
    [probe |-> "any", faults |-> {}, calls |-> 1,
     chans |-> TRUE, bodies |-> FALSE, history |-> FALSE,
     faulty |-> Callers, sinks |-> BOOLEAN]

InitProbe ==
    Start({1, 2}, ProbeEnv)

SpecProbe ==
    InitProbe /\ [][Next]_vars

(* The configuration and the chunk plan: SetMax with values on both sides of *)
(* fileChunks+1, a server without faults, one call.                         *)
ConfigEnv ==
    [probe |-> "ranged", faults |-> {}, calls |-> 1,
     chans |-> FALSE, bodies |-> FALSE, history |-> TRUE,
     faulty |-> Callers, sinks |-> BOOLEAN]

InitConfig ==
    Start({1, 2}, ConfigEnv)

NextConfig ==
    \/ \E m \in 0..(MaxChunks + 2) : SetMax(m)
    \/ \E b \in 0..MaxChunkSize : SetChunkSize(b)
    \/ \E c \in Callers : RoundTrip(c)
    \/ \E c \in Callers : head(c)
    \/ \E c \in Callers : ParseLength(c)
    \/ \E c \in Callers : LoopLock(c)
    \/ \E c \in Callers : LoopSpawn(c)
    \/ \E c \in Callers : GapSpawn(c)
    \/ \E c \in Callers : Join(c)
    \/ \E c \in Callers : \E k \in Workers(c) : FetchChunk(c, k)
    \/ \E c \in Callers : \E k \in Workers(c) : Done(c, k)
    \/ \E c \in Callers : \E k \in Workers(c) : Unlock(c, k)

SpecConfig ==
    InitConfig /\ [][NextConfig]_vars

(* The ranged engine with either sub-request client, against a server whose *)
(* range answers may be transport errors or 500s.                           *)
ClientEnv ==
    [probe |-> "ranged", faults |-> {"neterr", "status"}, calls |-> 1,
     chans |-> FALSE, bodies |-> FALSE, history |-> FALSE,
     faulty |-> Callers, sinks |-> BOOLEAN]

InitClient ==
    Start({1, 2}, ClientEnv)

NextClient ==
    \/ SetClient
    \/ NextEngine

SpecClient ==
    InitClient /\ [][NextClient]_vars

(* RetryClient.Do alone, for every number of retries up to MaxRetries. *)
InitRetry ==
    /\ env = GuardEnv
    /\ \E r \in 0..MaxRetries : rc = NewRetryClient(r)
    /\ NewWithLoggers(1, 1, 0)

NextRetry ==
    \/ RetryDo
    \/ RetryTry

SpecRetry ==
    InitRetry /\ [][NextRetry]_vars

(**************************** checked properties ***************************)
\* the call went through the Content-Length and Accept-Ranges tests into
\* ranged mode and made its chunk plan
Ranged(c) ==
    /\ pc[c] \in {"loop", "spawn", "gap", "wait", "returned"}
    /\ hres[c].status \in {200, 206}
    /\ hres[c].cl # <<>>
    /\ Atoi(hres[c].cl).ok
    /\ hres[c].ar = BytesUnit

\* the dispatch loop and the gap test are behind the call
AllDispatched(c) ==
    /\ Ranged(c)
    /\ pc[c] \in {"wait", "returned"}
    /\ i[c] = LoopBound(c)

\* the call returned from the dispatch loop's error check
AbortedInLoop(c) ==
    /\ Ranged(c)
    /\ pc[c] = "returned"
    /\ i[c] < LoopBound(c)

\* the byte offsets the chunks handed to workers cover
Covered(c) ==
    {o \in 0..(MaxLen + MaxChunkSize + 1) :
        \E k \in Workers(c) : wk[c][k].start <= o /\ o < wk[c][k].end}

\* workers that were spawned and have not released their permit
Holders(c) ==
    {k \in Workers(c) : wk[c][k].pc \in {"get", "done", "unlock"}}

\* chunks the plan holds: the loop's chunks and the gap chunk
PlannedCount(c) ==
    nloop[c] + (IF nloop[c] * csz[c] < contentLength[c] THEN 1 ELSE 0)

RECURSIVE SumDeltas(_, _)
SumDeltas(ws, pcs) ==
    IF ws = <<>> THEN 0
    ELSE (IF Head(ws).pc \in pcs THEN Head(ws).end - Head(ws).start ELSE 0)
         + SumDeltas(Tail(ws), pcs)

\* C1: on a v1 instance exactly one call passes the used flag; every other
\* call returns SingleRequestExhaustedError, having issued no HTTP request
\* and started nothing that writes to the output file.
C1_SingleUse ==
    ver = 1 =>
        LET entered  == {c \in Callers : pc[c] # "idle"}
            rejected == {c \in entered : result[c] = Fail("SingleRequestExhaustedError")}
        IN  /\ entered # {} => Cardinality(entered \ rejected) = 1
            /\ \A c \in rejected :
                 /\ pc[c] = "returned"
                 /\ gets[c] = 0
                 /\ wk[c] = <<>>
            /\ \A c \in entered \ rejected : \A d \in entered : c <= d

C1_Witness ==
    /\ ver = 1
    /\ resLen > 0
    /\ result[1].kind = "ok"
    /\ outFile[1].data = Bytes(0, resLen)
    /\ result[2] = Fail("SingleRequestExhaustedError")

\* C2: in ranged mode against a server that answers every range GET with
\* exactly that range, with a chunk count 1 <= N <= L or any fixed chunk
\* size, whatever the semaphore capacity and the workers' order, RoundTrip
\* returns no error and the sink holds exactly the resource bytes [0, L).
C2_ByteIdentical ==
    \A c \in Callers :
        (/\ Ranged(c)
         /\ pc[c] = "returned"
         /\ honest
         /\ (chunkSize # 0 \/ workers <= contentLength[c]))
        => /\ result[c].kind = "ok"
           /\ contentLength[c] = resLen
           /\ outFile[slot(c)].data = Bytes(0, resLen)

C2_Witness ==
    /\ Ranged(1)
    /\ pc[1] = "returned"
    /\ honest
    /\ result[1].kind = "ok"
    /\ Len(wk[1]) >= 3
    /\ sem[slot(1)].cap < Len(wk[1])
    /\ outFile[slot(1)].data = Bytes(0, resLen)

\* C3: the ranges handed to chunk workers start at 0, each starts where the
\* one before it ended, no two overlap, and once the loop and the gap test
\* are done their union is exactly [0, L).
C3_Partition ==
    \A c \in Callers :
        /\ \A k \in Workers(c) :
             /\ wk[c][k].start <= wk[c][k].end
             /\ wk[c][k].start = (IF k = 1 THEN 0 ELSE wk[c][k - 1].end)
             /\ \A j \in Workers(c) :
                  j < k => wk[c][j].end <= wk[c][k].start
        /\ AllDispatched(c) => Covered(c) = 0..(contentLength[c] - 1)

C3_Witness ==
    /\ AllDispatched(1)
    /\ LoopBound(1) >= 2
    /\ Len(wk[1]) = LoopBound(1) + 1
    /\ Covered(1) = 0..(resLen - 1)

\* C4: a ranged RoundTrip that found no error after the join returns
\* success only when the sink is as long as the Content-Length, and returns
\* ContentLengthMismatchError when the size it read differs.
C4_SizeVerified ==
    \A c \in Callers :
        (AllDispatched(c) /\ pc[c] = "returned" /\ fetchError[slot(c)] = "")
        => /\ result[c].kind = "ok" => SinkSize(outFile[slot(c)]) = contentLength[c]
           /\ (SinkSize(outFile[slot(c)]) # contentLength[c] /\ result[c].err # "StatError")
                => result[c] = Fail("ContentLengthMismatchError")

C4_Witness ==
    /\ AllDispatched(1)
    /\ fetchError[slot(1)] = ""
    /\ result[1] = Fail("ContentLengthMismatchError")
    /\ SinkSize(outFile[slot(1)]) < contentLength[1]

\* C5: at every moment the chunk workers that were spawned and have not
\* released their permit are at most as many as the semaphore's capacity.
C5_ConcurrencyCap ==
    \A c \in Callers :
        /\ Cardinality(Holders(c)) <= sem[slot(c)].held
        /\ sem[slot(c)].held <= sem[slot(c)].cap

C5_Witness ==
    /\ pc[1] \in {"loop", "gap"}
    /\ Len(wk[1]) >= 1
    /\ Cardinality(Holders(1)) = sem[slot(1)].cap

\* C6: if a chunk worker recorded an error, the RoundTrip that returned
\* returned an error; and never more chunk workers are dispatched than the
\* plan holds.
C6_ErrorReturned ==
    \A c \in Callers :
        /\ (Ranged(c) /\ pc[c] = "returned" /\ fetchError[slot(c)] # "")
             => result[c].kind = "err"
        /\ Ranged(c) => Len(wk[c]) <= PlannedCount(c)

C6_Witness ==
    /\ AbortedInLoop(1)
    /\ fetchError[slot(1)] # ""
    /\ result[1] = Fail(fetchError[slot(1)])
    /\ Len(wk[1]) < PlannedCount(1)

\* C7: once the error cell is non-empty no further chunk worker is spawned,
\* neither by the dispatch loop nor for the gap chunk.
C7_NoSpawnAfterError ==
    [][\A c \in Callers :
          fetchError[slot(c)] # "" => Len(wk'[c]) = Len(wk[c])]_vars

\* C8: when a RoundTrip that spawned workers has returned, every worker it
\* spawned has decremented the wait-group and released its permit.
C8_ReturnAfterWorkers ==
    \A c \in Callers :
        pc[c] = "returned"
        => \A k \in Workers(c) : wk[c][k].pc \in {"push", "end"}

\* C9: with a progress channel attached, the per-chunk events sent after
\* the length event are one per worker that got as far as its push, each of
\* value end - start; on a successful ranged RoundTrip whose workers have
\* all pushed they sum to exactly the content length.
C9_ProgressSum ==
    \A c \in Callers :
        (Ranged(c) /\ progress[slot(c)].on)
        => /\ sent[slot(c)] # <<>>
           /\ Head(sent[slot(c)]) = contentLength[c]
           /\ SumSeq(Tail(sent[slot(c)])) = SumDeltas(wk[c], {"end"})
           /\ Len(sent[slot(c)]) = 1 + Cardinality({k \in Workers(c) : wk[c][k].pc = "end"})
           /\ (/\ pc[c] = "returned"
               /\ result[c].kind = "ok"
               /\ \A k \in Workers(c) : wk[c][k].pc = "end")
                => SumSeq(Tail(sent[slot(c)])) = contentLength[c]

C9_Witness ==
    /\ Ranged(1)
    /\ progress[slot(1)].on
    /\ pc[1] = "returned"
    /\ result[1].kind = "ok"
    /\ Len(wk[1]) >= 3
    /\ \A k \in Workers(1) : wk[1][k].pc = "end"
    /\ SumSeq(Tail(sent[slot(1)])) = contentLength[1]
    /\ recvd[slot(1)] = sent[slot(1)]

\* C10: when a ranged RoundTrip with a progress channel has returned
\* without error, the consumer has received the length event and per-chunk
\* events that sum to it.
C10_ProgressReceivedAtReturn ==
    \A c \in Callers :
        (Ranged(c) /\ progress[slot(c)].on /\ pc[c] = "returned" /\ result[c].kind = "ok")
        => /\ recvd[slot(c)] # <<>>
           /\ SumSeq(Tail(recvd[slot(c)])) = Head(recvd[slot(c)])

Retriable(st) ==
    st = 0 \/ ~(st \in 200..299 \/ st \in 400..499)

\* C13: RetryClient.Do: an attempt that ends in a status in [400, 500) is
\* the last attempt, whatever number of retries remains, and Do returns
\* ErrStatusNope and no response.
C13_ClientErrorNotRetried ==
    \A k \in 1..Len(rc.log) :
        rc.log[k] \in 400..499
        => /\ k = Len(rc.log)
           /\ rc.pc = "returned"
           /\ rc.err = "ErrStatusNope"
           /\ rc.res = 0

C13_Witness ==
    /\ rc.pc = "returned"
    /\ rc.retries = MaxRetries
    /\ rc.log = <<500, 404>>
    /\ rc.err = "ErrStatusNope"

\* C14: RetryClient.Do with R retries: a transport error or a status outside
\* [200,300) and [400,500) is retried while retries remain; at most R+1
\* attempts are made; the first 2xx attempt ends Do with that response and
\* no error; when all R+1 attempts fail Do returns the last attempt's error.
C14_BoundedRetry ==
    /\ Len(rc.log) <= rc.retries + 1
    /\ \A k \in 1..(Len(rc.log) - 1) : Retriable(rc.log[k])
    /\ rc.pc = "try"
         => /\ rc.n = Len(rc.log)
            /\ rc.n <= rc.retries
            /\ \A k \in 1..Len(rc.log) : Retriable(rc.log[k])
    /\ rc.pc = "returned"
         => /\ rc.log # <<>>
            /\ LET last == rc.log[Len(rc.log)] IN
               /\ last \in 200..299 => (rc.err = "" /\ rc.res = last)
               /\ Retriable(last)
                    => /\ Len(rc.log) = rc.retries + 1
                       /\ rc.res = 0
                       /\ rc.err = (IF last = 0 THEN "TransportError" ELSE "Non2xxStatus")

C14_Witness ==
    /\ rc.pc = "returned"
    /\ rc.retries >= 1
    /\ Len(rc.log) = rc.retries + 1
    /\ rc.log[1] = 0
    /\ rc.log[Len(rc.log)] = 500
    /\ rc.err = "Non2xxStatus"

\* C11: in ranged mode with a progress channel attached, the content-length
\* event has been sent before the first chunk worker is spawned, so it is
\* the first event in channel order, ahead of every per-chunk event.
C11_LengthEventFirst ==
    \A c \in Callers :
        (progress[slot(c)].on /\ wk[c] # <<>>)
        => /\ sent[slot(c)] # <<>>
           /\ sent[slot(c)][1] = contentLength[c]
           /\ (recvd[slot(c)] \o chanBuf[slot(c)]) = sent[slot(c)]

C11_Witness ==
    /\ progress[slot(1)].on
    /\ Len(wk[1]) = 1
    /\ wk[1][1].pc = "get"
    /\ contentLength[1] > 0
    /\ sent[slot(1)] = <<contentLength[1]>>

\* the probe ended with a 200 or 206 response in hand and its
\* Content-Length has been looked at
PastParse(c) ==
    /\ hres[c].status \in {200, 206}
    /\ pc[c] \notin {"idle", "head", "headfake", "parse"}

\* HTTP requests of the probe: the HEAD and, when tried, the head-fake GET
ProbeRequests(c) ==
    1 + (IF probe[c].hf # 0 - 1 THEN 1 ELSE 0)

\* the total after the "/" of a Content-Range value
TotalOf(cr) ==
    LET parts == Split(cr, "/") IN
    IF Len(parts) = 2 THEN parts[2] ELSE <<>>

\* the content length is known: a numeric Content-Length on the response
\* the download is planned from
LengthKnown(c) ==
    /\ hres[c].status \in {200, 206}
    /\ hres[c].cl # <<>>
    /\ Atoi(hres[c].cl).ok

\* C12: in v2, whenever an event has been sent on the progress channel,
\* the first event is the content length when it is known and 0 when it is
\* not (no Content-Length header, or whole body from a head-fake 200).
C12_FirstEventLengthOrZero ==
    \A c \in Callers :
        (ver = 2 /\ sent[slot(c)] # <<>>)
        => sent[slot(c)][1] = (IF LengthKnown(c) THEN contentLength[c] ELSE 0)

\* C15: HEAD failed with a transport error or 403 and the head-fake GET
\* returned 206 with a Content-Range whose total T is numeric: the response
\* carried on has Content-Length T and Accept-Ranges bytes, RoundTrip goes
\* on in ranged mode with content length T, and when every chunk is a
\* non-empty range that the server answered exactly, it returns no error
\* with the T resource bytes in the sink.
C15_HeadFakeRanged ==
    \A c \in Callers :
        (/\ probe[c].head \in {0, 403}
         /\ probe[c].hf = 206
         /\ Atoi(TotalOf(probe[c].cr)).ok)
        => LET t == Atoi(TotalOf(probe[c].cr)).val IN
           /\ hres[c] = [status |-> 206, cl |-> TotalOf(probe[c].cr), ar |-> BytesUnit]
           /\ pc[c] \notin {"fetch", "sendn"}
           /\ pc[c] # "parse" => contentLength[c] = t
           /\ pc[c] \notin {"parse", "sendlen"} => Ranged(c)
           /\ (/\ pc[c] = "returned"
               /\ honest
               /\ \A k \in Workers(c) : wk[c][k].start < wk[c][k].end)
              => /\ result[c].kind = "ok"
                 /\ t = resLen
                 /\ outFile[slot(c)].data = Bytes(0, t)

C15_Witness ==
    /\ probe[1].head = 403
    /\ probe[1].hf = 206
    /\ probe[1].ar = <<>>
    /\ Atoi(TotalOf(probe[1].cr)).ok
    /\ pc[1] = "returned"
    /\ result[1].kind = "ok"
    /\ Len(wk[1]) >= 2
    /\ resLen >= 2
    /\ outFile[slot(1)].data = Bytes(0, resLen)

\* C16: HEAD failed with a transport error or 403 and the head-fake GET
\* returned 200: the body of that response is copied into the sink from its
\* start, no chunk worker is spawned, no further request is issued, and
\* RoundTrip returns the response without error.
C16_HeadFakeWholeBody ==
    \A c \in Callers :
        (probe[c].head \in {0, 403} /\ probe[c].hf = 200)
        => /\ wk[c] = <<>>
           /\ gets[c] = 2
           /\ outFile[slot(c)].data = Bytes(0, resLen)
           /\ pc[c] \in {"sendn", "returned"}
           /\ pc[c] = "returned" => result[c] = Ok("orig")

C16_Witness ==
    /\ probe[1].head = 0
    /\ probe[1].hf = 200
    /\ pc[1] = "returned"
    /\ resLen > 0
    /\ result[1] = Ok("orig")
    /\ outFile[slot(1)].data = Bytes(0, resLen)

\* C17: HEAD failed with a transport error or 403 and the head-fake GET
\* errored or returned a status other than 200 and 206: RoundTrip returns
\* the error of the HEAD (the transport error, or HEAD-failed 403), nothing
\* is written to the sink and no chunk worker is spawned.
C17_HeadErrorReturned ==
    \A c \in Callers :
        (probe[c].head \in {0, 403} /\ probe[c].hf \notin {0 - 1, 200, 206})
        => /\ pc[c] = "returned"
           /\ result[c] = Fail(IF probe[c].head = 0 THEN "HeadTransportError"
                                                     ELSE "HeadFailed403")
           /\ outFile[slot(c)].data = <<>>
           /\ wk[c] = <<>>
           /\ gets[c] = 2

C17_Witness ==
    /\ probe[1].head = 403
    /\ probe[1].hf = 500
    /\ pc[1] = "returned"
    /\ result[1] = Fail("HeadFailed403")

\* C18: HEAD returned a status other than 200, 206 and 403: RoundTrip fails
\* with the HEAD-failed error of that status; the head-fake is not tried,
\* no GET is issued, no chunk worker is spawned, nothing is written.
C18_HeadFailed ==
    \A c \in Callers :
        probe[c].head \notin {0 - 1, 0, 200, 206, 403}
        => /\ pc[c] = "returned"
           /\ result[c].kind = "err"
           /\ probe[c].head = 500 => result[c].err = "HeadFailed500"
           /\ probe[c].hf = 0 - 1
           /\ gets[c] = 1
           /\ wk[c] = <<>>
           /\ outFile[slot(c)].data = <<>>

C18_Witness ==
    /\ probe[1].head = 500
    /\ pc[1] = "returned"
    /\ result[1] = Fail("HeadFailed500")
    /\ gets[1] = 1

\* C19: after a probe that ended with a 200 or 206 response: without a
\* Content-Length, RoundTrip issues exactly one whole-body GET, copies it
\* into the sink and returns the probe response, or the GET's error when it
\* failed; with a Content-Length that is not a number it fails with
\* ContentLengthNumericError, with no GET, no worker and no write.
C19_LengthAbsentOrBad ==
    \A c \in Callers :
        PastParse(c)
        => /\ hres[c].cl = <<>>
                => /\ wk[c] = <<>>
                   /\ pc[c] \in {"fetch", "sendn", "returned"}
                   /\ pc[c] = "fetch"
                        => (gets[c] = ProbeRequests(c) /\ outFile[slot(c)].data = <<>>)
                   /\ pc[c] # "fetch" => gets[c] = ProbeRequests(c) + 1
                   /\ pc[c] = "returned"
                        => \/ /\ result[c] = Ok("orig")
                              /\ outFile[slot(c)].data \in {Bytes(0, resLen), ErrPage}
                           \/ /\ result[c].kind = "err"
                              /\ result[c].err \in {"TransportError", "Non2xxStatus"}
                              /\ outFile[slot(c)].data = <<>>
           /\ (hres[c].cl # <<>> /\ ~Atoi(hres[c].cl).ok)
                => /\ pc[c] = "returned"
                   /\ result[c] = Fail("ContentLengthNumericError")
                   /\ gets[c] = ProbeRequests(c)
                   /\ wk[c] = <<>>
                   /\ outFile[slot(c)].data = <<>>

C19_Witness ==
    /\ PastParse(1)
    /\ hres[1].cl = <<>>
    /\ resLen > 0
    /\ pc[1] = "returned"
    /\ result[1] = Ok("orig")
    /\ gets[1] = 2
    /\ outFile[slot(1)].data = Bytes(0, resLen)

C21_WholeFetchErrorReturned ==
    \A c \in Callers :
        (pc[c] = "returned" /\ probe[c].whole # "") => result[c].kind = "err"

\* the number of iterations the dispatch loop makes when SetMax is left out
\* of the picture: fileChunks, or contentLength div chunkSize in
\* fixed-size mode
LoopChunks(c) ==
    IF chunkSize # 0 THEN contentLength[c] \div chunkSize ELSE chunkCount

\* C22: after SetMax(m) with m >= 1 at most m chunk workers are in flight at
\* any moment of the RoundTrip that follows, and the number of chunks the
\* dispatch loop hands out is the one planned without SetMax (SetMax(0)
\* changes nothing at all).
C22_SetMaxCapsWorkers ==
    \A c \in Callers :
        /\ maxSet >= 1 => Cardinality(Holders(c)) <= maxSet
        /\ Ranged(c) => nloop[c] = LoopChunks(c)

C25_NoZeroWidthChunk ==
    \A c \in Callers :
        /\ \A k \in Workers(c) : wk[c][k].start < wk[c][k].end
        /\ (Ranged(c) /\ csz[c] = 0) => wk[c] = <<>>

\* C26: whenever the v2 RoundTrip returns success with a buffer sink, the
\* body of the response it returns is that buffer, on the ranged path and on
\* each of the whole-body paths.
C26_BufferIsBody ==
    \A c \in Callers :
        (/\ ver = 2
         /\ pc[c] = "returned"
         /\ result[c].kind = "ok"
         /\ ~outFile[slot(c)].file)
        => result[c].body = "sink"

\* C27: when a v1 RoundTrip has returned, on whichever path, the body of its
\* request is closed (if it had one) and so is the output file.
C27_ClosedOnReturn ==
    \A c \in Callers :
        (ver = 1 /\ pc[c] = "returned") =>
            /\ reqBody[c] # "open"
            /\ outFile[slot(c)].closed

\* the bytes the chunk responses of a call delivered, all together
RECURSIVE Delivered(_)
Delivered(ws) ==
    IF ws = <<>> THEN 0 ELSE Head(ws).got + Delivered(Tail(ws))

\* C28: a ranged download whose chunk responses together delivered fewer
\* bytes than the advertised Content-Length (no chunk failed, Stat worked)
\* returns ContentLengthMismatchError, whichever chunk was short.
C28_ShortDeliveryDetected ==
    \A c \in Callers :
        (/\ AllDispatched(c)
         /\ pc[c] = "returned"
         /\ ~Failed(fetchError[slot(c)])
         /\ result[c].err # "StatError"
         /\ Delivered(wk[c]) < contentLength[c])
        => result[c].err = "ContentLengthMismatchError"

CountAt(c, positions) ==
    Cardinality({k \in Workers(c) : wk[c][k].pc \in positions})

C30_FailedGetRecorded ==
    \A c \in Callers : \A k \in Workers(c) :
        (wk[c][k].pc # "get" /\ (wk[c][k].status < 200 \/ wk[c][k].status > 299)) =>
            /\ wk[c][k].err # ""
            /\ Failed(fetchError[slot(c)])

C33_StarTotalNotRanged ==
    \A c \in Callers :
        probe[c].hf = 206 /\ TotalOf(probe[c].cr) = Star =>
            /\ wk[c] = <<>>
            /\ ~Ranged(c)
            /\ gets[c] = ProbeRequests(c)
            /\ pc[c] = "returned" => result[c] = Fail("ContentLengthNumericError")

\* a call that got a 206 with total "*" from the head-fake has returned
C33_Witness ==
    \E c \in Callers :
        /\ probe[c].hf = 206
        /\ TotalOf(probe[c].cr) = Star
        /\ pc[c] = "returned"

\* C39: after head-fake recovery a ranged download is planned only from the
\* total of the Content-Range header of the 206.
C39_LengthFromTotal ==
    \A c \in Callers :
        Ranged(c) /\ probe[c].hf = 206 =>
            /\ Len(Split(probe[c].cr, "/")) = 2
            /\ hres[c].cl = TotalOf(probe[c].cr)

\* C34: a worker that failed has stored its error in the error cell before
\* it decrements the wait-group and before it releases its permit: whenever
\* a failed worker is at or past its wg.Done the cell is non-empty, so the
\* dispatcher that takes a permit such a worker released finds the cell
\* non-empty, and a call that returned after the join with a failed worker
\* returned an error.
C34_StoreBeforeRelease ==
    \A c \in Callers :
        /\ \A k \in Workers(c) :
               wk[c][k].err # "" /\ wk[c][k].pc # "get" => Failed(fetchError[slot(c)])
        /\ (pc[c] = "spawn" /\ i[c] > 0) =>
               \A k \in Workers(c) : wk[c][k].pc \in {"push", "end"} => wk[c][k].err = ""
               \/ Failed(fetchError[slot(c)])
        /\ (Ranged(c) /\ AllDispatched(c) /\ pc[c] = "returned"
              /\ \E k \in Workers(c) : wk[c][k].err # "")
             => result[c].kind = "err" /\ Failed(fetchError[slot(c)])

\* the dispatcher took the permit a failed worker released and returned that
\* worker's error from the loop's check
C34_Witness ==
    \E c \in Callers :
        /\ AbortedInLoop(c)
        /\ sem[slot(c)].cap = 1
        /\ \E k \in Workers(c) :
               /\ wk[c][k].err # ""
               /\ wk[c][k].pc \in {"push", "end"}
               /\ result[c] = Fail(wk[c][k].err)

\* C35: no chunk worker issues a WriteAt on the output file after the
\* deferred Close of RoundTrip has run (a WriteAt on the closed file is the
\* one that fails with ErrClosed).
C35_NoWriteAfterClose ==
    \A c \in Callers :
        \A k \in Workers(c) : wk[c][k].err # "ErrClosed"

\* the errors a chunk worker of call c has stored
WorkerErrors(c) ==
    {wk[c][k].err : k \in {j \in Workers(c) : wk[c][j].pc # "get"}} \ {""}

\* C36: an error cell that is non-empty never becomes empty again, its
\* value is always an error one of the request's workers stored, and the
\* error a ranged RoundTrip returns from the dispatch loop's check or from
\* the check after the join is such an error.
C36_CellKeepsWorkerError ==
    /\ [][\A s \in Callers : fetchError[s] # "" => fetchError'[s] # ""]_vars
    /\ [](\A c \in Callers :
            /\ fetchError[slot(c)] # "" /\ Workers(c) # {}
                 => fetchError[slot(c)] \in WorkerErrors(c)
            /\ (/\ Ranged(c)
                /\ pc[c] = "returned"
                /\ result[c].kind = "err"
                /\ result[c].err \notin {"StatError", "ContentLengthMismatchError"})
                 => result[c].err \in WorkerErrors(c))

\* one worker failed and a worker that ended after it succeeded: the cell
\* still holds the error, and the call returned it after the join
C36_Witness ==
    \E c \in Callers :
        /\ Ranged(c)
        /\ AllDispatched(c)
        /\ pc[c] = "returned"
        /\ result[c] = Fail(fetchError[slot(c)])
        /\ \E k \in Workers(c) : wk[c][k].err = result[c].err
        /\ \E k \in Workers(c) : wk[c][k].err = "" /\ wk[c][k].pc = "end"

\* C37: a worker that has pushed its progress event wrote its chunk to the
\* sink: no worker that failed pushes an event.
C37_PushOnlyOnSuccess ==
    \A c \in Callers :
        \A k \in Workers(c) :
            progress[slot(c)].on /\ wk[c][k].pc = "end" => wk[c][k].err = ""

\* C38: when the sub-requests end and the progress channel is drained, every
\* RoundTrip that was started returns, whatever the chunk count, the chunk
\* size and the semaphore capacity: the dispatcher does not wait forever for
\* a permit and the join does not wait forever for the workers. From some
\* point on every call is either not started or has returned.
C38_RoundTripReturns ==
    <>[](\A c \in Callers : pc[c] \in {"idle", "returned"})

\* a ranged call over a semaphore of one permit returned after the join,
\* with more chunks than permits and a progress channel attached
C38_Witness ==
    \E c \in Callers :
        /\ Ranged(c)
        /\ AllDispatched(c)
        /\ pc[c] = "returned"
        /\ sem[slot(c)].cap = 1
        /\ Len(wk[c]) >= 3
        /\ progress[slot(c)].on

\* C31: no step of a RoundTrip or of its workers changes the configuration
\* (chunk count, chunk size, client), and in v2 every call started on the
\* instance gets a semaphore of the same capacity.
C31_ConfigurationKept ==
    /\ [][(pc' # pc \/ wk' # wk) =>
            /\ workers' = workers
            /\ chunkSize' = chunkSize
            /\ client' = client]_vars
    /\ [](ver = 2 =>
            \A c, d \in Callers :
                pc[c] # "idle" /\ pc[d] # "idle" => sem[c].cap = sem[d].cap)

\* C40: in v2 every call has its own sink, error cell, wait-group and
\* semaphore. The error cell of a call holds an error of one of its own
\* workers, an error the call returns is an error of one of its own workers
\* (a call whose range GETs meet no fault never returns a transport error),
\* the wait-group counts the call's own workers that have not called Done,
\* the call's workers holding a permit are never more than its semaphore
\* has, and the sink is empty as long as no worker of the call has written.
C40_RequestsIsolated ==
    ver = 2 =>
        \A c \in Callers :
            /\ fetchError[c] # "" => fetchError[c] \in WorkerErrors(c)
            /\ result[c].kind = "err" => result[c].err \in WorkerErrors(c)
            /\ c \notin env.faulty => result[c].err # "TransportError"
            /\ wg[c] = Cardinality({k \in Workers(c) : wk[c][k].pc \in {"get", "done"}})
            /\ Cardinality(Holders(c)) <= sem[c].held
            /\ sem[c].held <= sem[c].cap
            /\ (\A k \in Workers(c) : wk[c][k].pc = "get" \/ wk[c][k].err # "")
                 => outFile[c].data = <<>>

\* two calls run at the same time: the first has a failed worker and a
\* worker still in flight, the second has returned success with its sink
\* filled
C40_Witness ==
    /\ ver = 2
    /\ fetchError[1] = "TransportError"
    /\ \E k \in Workers(1) : wk[1][k].pc = "get"
    /\ pc[1] \notin {"idle", "returned"}
    /\ pc[2] = "returned"
    /\ result[2].kind = "ok"
    /\ Len(wk[2]) >= 2
    /\ outFile[2].data = Bytes(0, resLen)

====
